---------------------------- MODULE Spec2Model ----------------------------
(***************************************************************************)
(* The Izhikevich neuron of izh_class.py and the two-neuron driver of      *)
(* main.py.                                                                *)
(*                                                                         *)
(* Numbers.  Python's numbers are modelled by a small decimal format with  *)
(* the same outcomes as binary64: a finite value (an integer count of      *)
(* 1/Scale units, every operation rounded to the nearest unit), +inf,      *)
(* -inf and nan.  A finite result beyond FloatMax becomes an infinity, as  *)
(* in IEEE arithmetic, except for the power operator: Python's x**2        *)
(* raises OverflowError when the result is out of range.                   *)
(***************************************************************************)
EXTENDS Integers, Sequences, FiniteSets, TLC

VARIABLES neuron1, neuron2, pc, i, step, v_out1, v_out2, last, ctor, spikes

vars == <<neuron1, neuron2, pc, i, step, v_out1, v_out2, last, ctor, spikes>>

---------------------------------------------------------------------------
(* Bounds of the model *)

\* Scale = Limb^2 units per 1.0: the resolution of the number format.
Limb == 100

\* Largest finite magnitude of the number format (sys.float_info.max scaled down).
FloatMax == 50000

\* Calls of step explored after a construction, in the specification Spec.
MaxCalls == 4

Scale == Limb * Limb

MaxMag == FloatMax * Scale

---------------------------------------------------------------------------
(* The number format *)

Fin(n) == [k |-> "fin", x |-> n]

PosInf == [k |-> "inf", x |-> 1]

NegInf == [k |-> "inf", x |-> -1]

NaN == [k |-> "nan", x |-> 0]

\* An argument the caller did not pass.
Omitted == [k |-> "omitted", x |-> 0]

Inf(s) == IF s < 0 THEN NegInf ELSE PosInf

\* The integer literal n.
Whole(n) == Fin(n * Scale)

\* The decimal literal n/den (n >= 0), rounded to the nearest unit.
Dec(n, den) == Fin((2 * n * Scale + den) \div (2 * den))

Abs(n) == IF n < 0 THEN -n ELSE n

Sgn(n) == IF n < 0 THEN -1 ELSE IF n > 0 THEN 1 ELSE 0

\* A finite result, or the infinity it overflows to.
Round(n) == IF n > MaxMag THEN PosInf ELSE IF n < -MaxMag THEN NegInf ELSE Fin(n)

\* p + q
FAdd(p, q) ==
    IF p.k = "nan" \/ q.k = "nan" THEN NaN
    ELSE IF p.k = "inf" /\ q.k = "inf" THEN (IF p.x = q.x THEN p ELSE NaN)
    ELSE IF p.k = "inf" THEN p
    ELSE IF q.k = "inf" THEN q
    ELSE Round(p.x + q.x)

FNeg(p) == IF p.k = "nan" THEN NaN ELSE [k |-> p.k, x |-> -p.x]

\* p - q
FSub(p, q) == FAdd(p, FNeg(q))

\* |x*y| in units, rounded to nearest, for magnitudes ax, ay <= MaxMag;
\* -1 when it exceeds MaxMag.  Long multiplication on two limbs.
MulMag(ax, ay) ==
    LET x1 == ax \div Limb
        x0 == ax % Limb
        y1 == ay \div Limb
        y0 == ay % Limb
        cross == x1 * y0 + x0 * y1
        low == (cross % Limb) * Limb + x0 * y0 + (Scale \div 2)
        r == x1 * y1 + (cross \div Limb) + (low \div Scale)
    IN  IF y1 > 0 /\ x1 > MaxMag \div y1 THEN -1
        ELSE IF r > MaxMag THEN -1
        ELSE r

\* p * q
FMul(p, q) ==
    IF p.k = "nan" \/ q.k = "nan" THEN NaN
    ELSE IF p.k = "inf" \/ q.k = "inf"
         THEN (IF p.x = 0 \/ q.x = 0 THEN NaN ELSE Inf(Sgn(p.x) * Sgn(q.x)))
    ELSE LET m == MulMag(Abs(p.x), Abs(q.x))
         IN  IF m < 0 THEN Inf(Sgn(p.x) * Sgn(q.x))
             ELSE Fin(Sgn(p.x) * Sgn(q.x) * m)

\* p ** 2 raises OverflowError: a finite p whose square is out of range.
PowOverflows(p) == p.k = "fin" /\ MulMag(Abs(p.x), Abs(p.x)) < 0

\* p ** 2, when it does not raise.
FPow2(p) == FMul(p, p)

\* p >= q (false when either is nan)
FGe(p, q) ==
    IF p.k = "nan" \/ q.k = "nan" THEN FALSE
    ELSE IF p.k = "inf" THEN (p.x > 0 \/ (q.k = "inf" /\ q.x < 0))
    ELSE IF q.k = "inf" THEN q.x < 0
    ELSE p.x >= q.x

---------------------------------------------------------------------------
(* izh_class.py: the two classes *)

ArgNames == {"a", "b", "c", "d", "thr", "initial_voltage", "initial_recovery", "dt"}

\* No object: the name is not bound (yet).
NoNeuron ==
    [cls |-> "None", a |-> Omitted, b |-> Omitted, c |-> Omitted, d |-> Omitted,
     thr |-> Omitted, v |-> Omitted, u |-> Omitted, dt |-> Omitted]

\* The value a parameter with a default takes.
Default(given, dflt) == IF given = Omitted THEN dflt ELSE given

\* IzhikevichNeuron.__init__(self, thr) raises TypeError: thr missing, or an
\* argument the signature does not have.
IzhInitRaises(args) ==
    \/ args.thr = Omitted
    \/ \E f \in ArgNames \ {"thr"} : args[f] # Omitted

\* IzhikevichNeuron(thr)
IzhInit(args) ==
    [cls |-> "IzhikevichNeuron",
     a |-> Dec(2, 100), b |-> Dec(2, 10), c |-> Whole(-65), d |-> Whole(8),
     thr |-> args.thr,
     v |-> Whole(-65), u |-> Whole(0),
     dt |-> Dec(1, 100)]

\* TTIzhikevichNeuron.__init__ raises TypeError: a, b, c, d, thr have no default.
TTInitRaises(args) == \E f \in {"a", "b", "c", "d", "thr"} : args[f] = Omitted

\* Mutant of TTInit: the two initial conditions stored in each other's field.
TTInit_swapped(args) ==
    [cls |-> "TTIzhikevichNeuron",
     a |-> args.a, b |-> args.b, c |-> args.c, d |-> args.d,
     thr |-> args.thr,
     v |-> Default(args.initial_recovery, Whole(0)),
     u |-> Default(args.initial_voltage, Whole(-65)),
     dt |-> Default(args.dt, Dec(1, 100))]

\* TTIzhikevichNeuron(a, b, c, d, thr, initial_voltage=-65, initial_recovery=0, dt=.01)
TTInit(args) ==
    [cls |-> "TTIzhikevichNeuron",
     a |-> args.a, b |-> args.b, c |-> args.c, d |-> args.d,
     thr |-> args.thr,
     v |-> Default(args.initial_voltage, Whole(-65)),
     u |-> Default(args.initial_recovery, Whole(0)),
     dt |-> Default(args.dt, Dec(1, 100))]

\* Mutant of v_prime: the quadratic coefficient mistyped as 0.4.
v_prime_typo(n, current) ==
    FAdd(FSub(FAdd(FAdd(FMul(Dec(4, 10), FPow2(n.v)),
                        FMul(Whole(5), n.v)),
                   Whole(140)),
              n.u),
         current)

\* v_prime = (0.04 * self.v**2) + (5 * self.v) + 140 - self.u + current
v_prime(n, current) ==
    FAdd(FSub(FAdd(FAdd(FMul(Dec(4, 100), FPow2(n.v)),
                        FMul(Whole(5), n.v)),
                   Whole(140)),
              n.u),
         current)

\* u_prime = self.a * (self.b * self.v - self.u)
u_prime(n) == FMul(n.a, FSub(FMul(n.b, n.v), n.u))

\* v_next = self.v + v_prime * self.dt
v_next(n, current) == FAdd(n.v, FMul(v_prime(n, current), n.dt))

\* u_next = self.u + u_prime * self.dt
u_next(n) == FAdd(n.u, FMul(u_prime(n), n.dt))

\* if self.v >= self.thr
AtThreshold(n, current) == FGe(n.v, n.thr)

\* Mutant of Reset: the sum stored in self.d as well.
Reset_clobbers_d(n) == [n EXCEPT !.v = n.c, !.u = FAdd(n.u, n.d), !.d = FAdd(n.u, n.d)]

\* Mutant of Reset: self.v is not reset.
Reset_keeps_v(n) == [n EXCEPT !.u = FAdd(n.u, n.d)]

\* self.v = self.c; self.u = self.u + self.d
Reset(n) == [n EXCEPT !.v = n.c, !.u = FAdd(n.u, n.d)]

\* self.v = v_next; self.u = u_next
Integrate(n, current) == [n EXCEPT !.v = v_next(n, current), !.u = u_next(n)]

\* IzhikevichNeuron.step(current): the neuron after the call, the exception
\* raised ("none" when it returns) and the value returned.
IzhStep(n, current) ==
    IF PowOverflows(n.v)
    THEN [n |-> n, raised |-> "OverflowError", spike |-> 0]
    ELSE IF AtThreshold(n, current)
         THEN [n |-> Reset(n), raised |-> "none", spike |-> 1]
         ELSE [n |-> Integrate(n, current), raised |-> "none", spike |-> 0]

\* TTIzhikevichNeuron.step(current): bin(current) raises TypeError for a float,
\* and for an int the sum float + str raises TypeError, before any assignment.
TTStep(n, current) == [n |-> n, raised |-> "TypeError", spike |-> 0]

\* What a call of step left behind: the neuron called (1 or 2), its state
\* before and after the call, the argument and the outcome.
Call(who, pre, current, res) ==
    [who |-> who, pre |-> pre, post |-> res.n, current |-> current,
     raised |-> res.raised, spike |-> res.spike]

NoCall ==
    [who |-> 0, pre |-> NoNeuron, post |-> NoNeuron, current |-> Omitted,
     raised |-> "none", spike |-> 0]

\* What a constructor call left behind: the class, the arguments, whether it
\* raised TypeError, and the object made.
Ctor(cls, args, raised, made) == [cls |-> cls, args |-> args, raised |-> raised, made |-> made]

NoCtor == Ctor("None", [f \in ArgNames |-> Omitted], FALSE, NoNeuron)

---------------------------------------------------------------------------
(* Spec: one neuron, constructed and stepped by an arbitrary caller *)

\* The threshold values a caller passes.
Thresholds == {Whole(30), Whole(-65), Whole(-70)}

\* A value other than every default, for each parameter.
Other ==
    [a |-> Dec(1, 10), b |-> Dec(25, 100), c |-> Whole(-50), d |-> Whole(2),
     initial_voltage |-> Whole(-70), initial_recovery |-> Whole(-14),
     dt |-> Dec(5, 100)]

\* The argument lists a caller passes.
ArgLists ==
    [a : {Omitted, Other.a}, b : {Omitted, Other.b}, c : {Omitted, Other.c},
     d : {Omitted, Other.d}, thr : {Omitted} \cup Thresholds,
     initial_voltage : {Omitted, Other.initial_voltage},
     initial_recovery : {Omitted, Other.initial_recovery},
     dt : {Omitted, Other.dt}]

\* The stimuli a caller passes: ordinary, strong, out of range, non-finite.
Currents ==
    {Whole(4), Whole(10000), Whole(40000), Whole(-40000), PosInf, NegInf, NaN}

Init ==
    /\ neuron1 = NoNeuron
    /\ neuron2 = NoNeuron
    /\ pc = "new"
    /\ i = 0
    /\ step = 0
    /\ v_out1 = Omitted
    /\ v_out2 = Omitted
    /\ last = NoCall
    /\ ctor = NoCtor
    /\ spikes = 0

\* neuron1 = IzhikevichNeuron(**args)
ConstructIzh(args) ==
    /\ pc = "new"
    /\ IF IzhInitRaises(args)
       THEN /\ pc' = "raised"
            /\ ctor' = Ctor("IzhikevichNeuron", args, TRUE, NoNeuron)
            /\ UNCHANGED neuron1
       ELSE /\ pc' = "live"
            /\ ctor' = Ctor("IzhikevichNeuron", args, FALSE, IzhInit(args))
            /\ neuron1' = IzhInit(args)
    /\ UNCHANGED <<neuron2, i, step, v_out1, v_out2, last, spikes>>

\* neuron1 = TTIzhikevichNeuron(**args)
ConstructTT(args) ==
    /\ pc = "new"
    /\ IF TTInitRaises(args)
       THEN /\ pc' = "raised"
            /\ ctor' = Ctor("TTIzhikevichNeuron", args, TRUE, NoNeuron)
            /\ UNCHANGED neuron1
       ELSE /\ pc' = "live"
            /\ ctor' = Ctor("TTIzhikevichNeuron", args, FALSE, TTInit(args))
            /\ neuron1' = TTInit(args)
    /\ UNCHANGED <<neuron2, i, step, v_out1, v_out2, last, spikes>>

\* neuron1.step(current), neuron1 an IzhikevichNeuron
CallStep(current) ==
    /\ pc = "live"
    /\ neuron1.cls = "IzhikevichNeuron"
    /\ step < MaxCalls
    /\ LET res == IzhStep(neuron1, current)
       IN  /\ neuron1' = res.n
           /\ last' = Call(1, neuron1, current, res)
           /\ spikes' = spikes + res.spike
    /\ step' = step + 1
    /\ UNCHANGED <<neuron2, pc, i, v_out1, v_out2, ctor>>

\* neuron1.step(current), neuron1 a TTIzhikevichNeuron
CallTTStep(current) ==
    /\ pc = "live"
    /\ neuron1.cls = "TTIzhikevichNeuron"
    /\ step < MaxCalls
    /\ LET res == TTStep(neuron1, current)
       IN  /\ neuron1' = res.n
           /\ last' = Call(1, neuron1, current, res)
           /\ spikes' = spikes + res.spike
    /\ step' = step + 1
    /\ UNCHANGED <<neuron2, pc, i, v_out1, v_out2, ctor>>

\* The caller overwrites the state, as main.py does between sweeps:
\* neuron1.v = -65; neuron1.u = 0
ResetState ==
    /\ pc = "live"
    /\ neuron1' = [neuron1 EXCEPT !.v = Whole(-65), !.u = Whole(0)]
    /\ UNCHANGED <<neuron2, pc, i, step, v_out1, v_out2, last, ctor, spikes>>

Next ==
    \/ \E args \in ArgLists : ConstructIzh(args)
    \/ \E args \in ArgLists : ConstructTT(args)
    \/ \E current \in Currents : CallStep(current)
    \/ \E current \in Currents : CallTTStep(current)
    \/ ResetState

Spec == Init /\ [][Next]_vars

---------------------------------------------------------------------------
(* SpecMain: main.py, the two-neuron chain swept over three currents.      *)
(* The arrays voltages1/voltages2 and the plot only receive the values     *)
(* v_out1/v_out2 and are not part of the state.                            *)

\* n_steps = 10000
n_steps == 10000

\* threshold = 30
threshold == 30

\* currents = [4, 6, 8]
currents == <<Whole(4), Whole(6), Whole(8)>>

InitMain ==
    /\ neuron1 = NoNeuron
    /\ neuron2 = NoNeuron
    /\ pc = "create"
    /\ i = 0
    /\ step = 0
    /\ v_out1 = Omitted
    /\ v_out2 = Omitted
    /\ last = NoCall
    /\ ctor = NoCtor
    /\ spikes = 0

\* The call IzhikevichNeuron(thr=threshold)
MainArgs == [[f \in ArgNames |-> Omitted] EXCEPT !["thr"] = Whole(threshold)]

\* neuron1 = izh_class.IzhikevichNeuron(thr=threshold); neuron2 likewise
CreateNeurons ==
    /\ pc = "create"
    /\ ~IzhInitRaises(MainArgs)
    /\ neuron1' = IzhInit(MainArgs)
    /\ neuron2' = IzhInit(MainArgs)
    /\ ctor' = Ctor("IzhikevichNeuron", MainArgs, FALSE, IzhInit(MainArgs))
    /\ pc' = "sweep"
    /\ UNCHANGED <<i, step, v_out1, v_out2, last, spikes>>

\* for i, current in enumerate(currents): reset both neurons' v and u
SweepReset ==
    /\ pc = "sweep"
    /\ i < Len(currents)
    /\ neuron1' = [neuron1 EXCEPT !.v = Whole(-65), !.u = Whole(0)]
    /\ neuron2' = [neuron2 EXCEPT !.v = Whole(-65), !.u = Whole(0)]
    /\ step' = 0
    /\ spikes' = 0
    /\ pc' = "n1"
    /\ UNCHANGED <<i, v_out1, v_out2, last, ctor>>

\* Mutant of StepNeuron1: v_out1 read before the call of step.
StepNeuron1_stale ==
    /\ pc = "n1"
    /\ step < n_steps
    /\ LET res == IzhStep(neuron1, currents[i + 1])
       IN  /\ neuron1' = res.n
           /\ last' = Call(1, neuron1, currents[i + 1], res)
           /\ spikes' = spikes + res.spike
           /\ v_out1' = neuron1.v
           /\ pc' = IF res.raised = "none" THEN "n2" ELSE "raised"
    /\ UNCHANGED <<neuron2, i, step, v_out2, ctor>>

\* neuron1.step(current); v_out1 = neuron1.v
StepNeuron1 ==
    /\ pc = "n1"
    /\ step < n_steps
    /\ LET res == IzhStep(neuron1, currents[i + 1])
       IN  /\ neuron1' = res.n
           /\ last' = Call(1, neuron1, currents[i + 1], res)
           /\ spikes' = spikes + res.spike
           /\ IF res.raised = "none"
              THEN /\ v_out1' = res.n.v
                   /\ pc' = "n2"
              ELSE /\ pc' = "raised"
                   /\ UNCHANGED v_out1
    /\ UNCHANGED <<neuron2, i, step, v_out2, ctor>>

\* neuron2.step(v_out1); v_out2 = neuron2.v; next step of the range
StepNeuron2 ==
    /\ pc = "n2"
    /\ LET res == IzhStep(neuron2, v_out1)
       IN  /\ neuron2' = res.n
           /\ last' = Call(2, neuron2, v_out1, res)
           /\ IF res.raised = "none"
              THEN /\ v_out2' = res.n.v
                   /\ step' = step + 1
                   /\ pc' = "n1"
              ELSE /\ pc' = "raised"
                   /\ UNCHANGED <<v_out2, step>>
    /\ UNCHANGED <<neuron1, i, v_out1, ctor, spikes>>

\* ax.plot(voltages1, ...); ax.plot(voltages2, ...): the sweep is over
PlotSweep ==
    /\ pc = "n1"
    /\ step = n_steps
    /\ i' = i + 1
    /\ pc' = "sweep"
    /\ UNCHANGED <<neuron1, neuron2, step, v_out1, v_out2, last, ctor, spikes>>

\* ax.axhline(...); plt.legend(); plt.show()
Show ==
    /\ pc = "sweep"
    /\ i = Len(currents)
    /\ pc' = "done"
    /\ UNCHANGED <<neuron1, neuron2, i, step, v_out1, v_out2, last, ctor, spikes>>

NextMain ==
    \/ CreateNeurons
    \/ SweepReset
    \/ StepNeuron1
    \/ StepNeuron2
    \/ PlotSweep
    \/ Show

SpecMain == InitMain /\ [][NextMain]_vars

---------------------------------------------------------------------------
(* The claims *)

\* The last call was a call of IzhikevichNeuron.step.
IzhCalled == last.who # 0 /\ last.pre.cls = "IzhikevichNeuron"

\* p < q
Below(p, q) == p.k # "nan" /\ q.k # "nan" /\ ~FGe(p, q)

\* The fields step is not to touch.
Params(n) == <<n.cls, n.a, n.b, n.c, n.d, n.thr, n.dt>>

\* The Euler candidates, written out from the pre-call fields.
EulerV(n, current) ==
    FAdd(n.v,
         FMul(FAdd(FSub(FAdd(FAdd(FMul(Dec(4, 100), FMul(n.v, n.v)),
                                  FMul(Whole(5), n.v)),
                             Whole(140)),
                        n.u),
                   current),
              n.dt))

EulerU(n) == FAdd(n.u, FMul(FMul(n.a, FSub(FMul(n.b, n.v), n.u)), n.dt))

\* C1: every call of step made with stored v >= threshold, whatever the
\* current, returns spike = 1 and leaves v = c and u = u_old + d.
ResetExact ==
    (IzhCalled /\ FGe(last.pre.v, last.pre.thr)) =>
        /\ last.raised = "none"
        /\ last.spike = 1
        /\ last.post.v = last.pre.c
        /\ last.post.u = FAdd(last.pre.u, last.pre.d)

\* C2: every call of step made with stored v < threshold returns spike = 0
\* and leaves v and u at the Euler candidates computed from the pre-call v, u.
IntegrationFormula ==
    (IzhCalled /\ Below(last.pre.v, last.pre.thr)) =>
        /\ last.raised = "none"
        /\ last.spike = 0
        /\ last.post.v = EulerV(last.pre, last.current)
        /\ last.post.u = EulerU(last.pre)

\* C3: every call of step executes exactly one of reset and integrate, chosen
\* by the pre-call v alone; an integrate step that carries v to or above the
\* threshold still returns spike = 0.
PreCheckOrdering ==
    IzhCalled =>
        /\ last.raised = "none"
        /\ IF FGe(last.pre.v, last.pre.thr)
           THEN /\ last.spike = 1
                /\ last.post.v = last.pre.c
                /\ last.post.u = FAdd(last.pre.u, last.pre.d)
           ELSE /\ last.spike = 0
                /\ last.post.v = EulerV(last.pre, last.current)
                /\ last.post.u = EulerU(last.pre)

\* On every call of step that returns, C1, C2 and C3 do hold: the calls that
\* break them are exactly those that raise OverflowError (C6).
StepContractOnReturn ==
    (IzhCalled /\ last.raised = "none") =>
        IF FGe(last.pre.v, last.pre.thr)
        THEN /\ last.spike = 1
             /\ last.post.v = last.pre.c
             /\ last.post.u = FAdd(last.pre.u, last.pre.d)
        ELSE /\ last.spike = 0
             /\ last.post.v = EulerV(last.pre, last.current)
             /\ last.post.u = EulerU(last.pre)

\* An integrate step that committed a v at or above the threshold and
\* returned spike = 0 (the case C3 singles out).
OvershootCommitted ==
    /\ IzhCalled
    /\ last.raised = "none"
    /\ last.spike = 0
    /\ Below(last.pre.v, last.pre.thr)
    /\ FGe(last.post.v, last.post.thr)

\* C4: a, b, c, d, thr and dt keep the values construction gave them through
\* every call of step; a call changes nothing but v and u.
ParamsImmutable ==
    /\ pc = "live" => Params(neuron1) = Params(ctor.made)
    /\ last.who # 0 => Params(last.post) = Params(last.pre)

\* Resets and integrations both happened on one neuron.
ParamsWitness ==
    /\ pc = "live"
    /\ step >= 3
    /\ spikes >= 1
    /\ IzhCalled
    /\ last.raised = "none"
    /\ last.spike = 0

\* The neuron the spec's constructor would make from args.
SpecNeuron(args) ==
    [a |-> Default(args.a, Dec(2, 100)), b |-> Default(args.b, Dec(2, 10)),
     c |-> Default(args.c, Whole(-65)), d |-> Default(args.d, Whole(8)),
     thr |-> args.thr,
     v |-> Default(args.initial_voltage, Whole(-65)),
     u |-> Default(args.initial_recovery, Whole(0)),
     dt |-> Default(args.dt, Dec(1, 100))]

\* The fields of a neuron.
Fields(n) ==
    [a |-> n.a, b |-> n.b, c |-> n.c, d |-> n.d, thr |-> n.thr,
     v |-> n.v, u |-> n.u, dt |-> n.dt]

Totality == IzhCalled => last.raised = "none"

\* C8 as stated: in the first sweep (threshold 30, defaults, current 4, 10000
\* steps) neuron1 spikes repeatedly, each spike leaving v = -65 and u
\* raised by 8.
ReferenceScenario ==
    /\ (i = 0 /\ pc = "n1" /\ step = n_steps) => spikes >= 2
    /\ (i = 0 /\ last.who = 1 /\ last.spike = 1) =>
          /\ last.post.v = Whole(-65)
          /\ last.post.u = FAdd(last.pre.u, Whole(8))

\* C8 amended: in the first sweep neuron1 never spikes: each of the 10000
\* steps returns spike = 0 and leaves v below 30; in the sweeps that do spike
\* (currents 6 and 8) each spike leaves v = -65 and u raised by 8.
ReferenceScenarioNoSpike ==
    /\ (i = 0 /\ last.who = 1) =>
          /\ last.raised = "none"
          /\ last.spike = 0
          /\ Below(last.post.v, Whole(threshold))
    /\ i = 0 => spikes = 0
    /\ (last.who = 1 /\ last.spike = 1) =>
          /\ last.post.v = Whole(-65)
          /\ last.post.u = FAdd(last.pre.u, Whole(8))

\* The first sweep is over: 10000 steps with current 4.
ReferenceScenarioWitness ==
    /\ i = 0
    /\ pc = "n1"
    /\ step = n_steps
    /\ currents[i + 1] = Whole(4)
    /\ spikes = 0

\* C9: neuron2's step t starts only after neuron1's step t has returned, is
\* passed neuron1's v as that step left it, and leaves neuron1 alone.
ChainSequencing ==
    [][/\ (pc = "n1" /\ pc' = "n2") =>
              /\ last'.who = 1
              /\ v_out1' = last'.post.v
              /\ neuron1' = last'.post
              /\ neuron2' = neuron2
       /\ pc = "n2" =>
              /\ last.who = 1
              /\ neuron1 = last.post
              /\ last'.who = 2
              /\ last'.pre = neuron2
              /\ last'.current = neuron1.v
              /\ neuron1' = neuron1]_vars

\* neuron2 has just been stepped with neuron1's new v, which differs from
\* the v neuron1 had before its own step.
ChainWitness ==
    /\ pc = "n1"
    /\ step = 2
    /\ last.who = 2
    /\ last.current = neuron1.v
    /\ last.current = v_out1
    /\ last.current # Whole(-65)

\* C10: with c < thr the call after a spike integrates and returns 0; with
\* c >= thr the call after a spike spikes again, from v = c, adding d to u.
NoPersistentSpike ==
    [][(step' = step + 1 /\ IzhCalled /\ last.spike = 1) =>
          IF Below(last.pre.c, last.pre.thr)
          THEN /\ last'.raised = "none"
               /\ last'.spike = 0
               /\ last'.post.v = EulerV(last'.pre, last'.current)
               /\ last'.post.u = EulerU(last'.pre)
          ELSE /\ last'.raised = "none"
               /\ last'.spike = 1
               /\ last'.pre.v = last.pre.c
               /\ last'.post.v = last.pre.c
               /\ last'.post.u = FAdd(last'.pre.u, last.pre.d)]_vars

\* A spike and, right after it, an integrate step (c < thr).
NoPersistentSpikeWitness ==
    /\ IzhCalled
    /\ step = 3
    /\ spikes = 1
    /\ last.spike = 0
    /\ last.raised = "none"
    /\ Below(last.pre.c, last.pre.thr)
    /\ last.pre.v = last.pre.c
    /\ last.pre.u # Whole(0)

===========================================================================
